---- MODULE Spec2Model ----
(***************************************************************************)
(* A model of context-compression-engine: compress (classification,        *)
(* exact and fuzzy dedup, same-role merging, summarization, size guard,    *)
(* provenance, token-budget search, force-converge) and uncompress.        *)
(*                                                                         *)
(* Message contents are abstracted to records that keep the identity of    *)
(* the text and its exact character length; every rewritten content        *)
(* carries the length its wire format gives it.                            *)
(***************************************************************************)
EXTENDS Integers, Sequences, FiniteSets, TLC

(* ------------------------------ bounds --------------------------------- *)
MaxMsgs == 3
MaxWindow == 2
MaxId == 4
MaxTurns == 5

(* ------------------------- program constants --------------------------- *)
ShortLimit == 120
DedupMinLen == 200
TruncateLen == 512
SmallBudget == 200
LargeBudget == 400
BudgetSwitch == 600
MinSplitProse == 80
FuzzyThresholdPct == 85
FingerprintLines == 5
MinSharedLines == 3
MinLenRatioPct == 70
MaxEntities == 10
MaxDepth == 10
JoinerLen == 5
ProbeReplyLen == 27
HashInit == 5381
HalfWord == 65536

(* ------------------------------ helpers -------------------------------- *)
Min(a, b) == IF a < b THEN a ELSE b
Max(a, b) == IF a > b THEN a ELSE b

RECURSIVE Digits(_, _)
Digits(n, base) == IF n < base THEN 1 ELSE 1 + Digits(n \div base, base)

RECURSIVE SumSeq(_)
SumSeq(s) == IF s = <<>> THEN 0 ELSE Head(s) + SumSeq(Tail(s))

RECURSIVE Flatten(_)
Flatten(ss) == IF ss = <<>> THEN <<>> ELSE Head(ss) \o Flatten(Tail(ss))

Range(s) == {s[i] : i \in 1..Len(s)}

(* the sequence with every element computed once *)
AsSeq(s) == s \o <<>>

RECURSIVE SortAsc(_)
SortAsc(S) ==
  IF S = {} THEN <<>>
  ELSE LET m == CHOOSE x \in S : \A y \in S : x <= y
       IN <<m>> \o SortAsc(S \ {m})

(* --------------------------- text catalogue ---------------------------- *)
(* A text is a paragraph of sentences (length, score), a fenced code part  *)
(* (length 0 when absent), a structural class decided by the classifier's  *)
(* detectors, its normalized lines, and the lengths of its entities.        *)
Sent(l, s) == [len |-> l, score |-> s]

Catalogue ==
  [P  |-> [kind |-> "prose", sents |-> <<Sent(190, 5), Sent(190, 3), Sent(190, 2)>>,
           fence |-> 0, raw |-> 0,
           lines |-> <<1, 2, 3, 4, 5, 6, 6, 6, 6, 6, 6, 6, 6, 7>>, ents |-> <<6, 6>>],
   P2 |-> [kind |-> "prose", sents |-> <<Sent(190, 5), Sent(190, 3), Sent(188, 2)>>,
           fence |-> 0, raw |-> 0,
           lines |-> <<1, 2, 3, 4, 5, 6, 6, 6, 6, 6, 6, 6, 6, 8>>, ents |-> <<6, 6>>],
   J  |-> [kind |-> "prose", sents |-> <<Sent(125, 4)>>,
           fence |-> 0, raw |-> 0, lines |-> <<9>>, ents |-> <<>>],
   E  |-> [kind |-> "prose", sents |-> <<Sent(125, 4)>>,
           fence |-> 0, raw |-> 0, lines |-> <<16>>,
           ents |-> <<12, 12, 12, 12, 12, 12, 12, 12, 12, 12>>],
   C  |-> [kind |-> "hard", sents |-> <<>>,
           fence |-> 0, raw |-> 520, lines |-> <<10, 11, 12>>, ents |-> <<>>],
   F  |-> [kind |-> "prose", sents |-> <<Sent(150, 4), Sent(150, 2)>>,
           fence |-> 520, raw |-> 0, lines |-> <<13, 14, 15>>, ents |-> <<6>>]]

TextNames == DOMAIN Catalogue

SentsLen(sents) ==
  IF sents = <<>> THEN 0
  ELSE SumSeq([i \in 1..Len(sents) |-> sents[i].len]) + (Len(sents) - 1)

ProseLen(name) == SentsLen(Catalogue[name].sents)

TextLen(name) ==
  LET t == Catalogue[name]
  IN IF t.kind = "hard" THEN t.raw
     ELSE IF t.fence > 0 THEN ProseLen(name) + 2 + t.fence
     ELSE ProseLen(name)

(* ------------------------------ contents ------------------------------- *)
(* kind: raw | summary | split | dup | neardup | trunc                     *)
Content(k, s, r, n, p, i, l) ==
  [kind |-> k, src |-> s, ref |-> r, num |-> n, pct |-> p, inner |-> i, len |-> l]

Raw(name) == Content("raw", <<name>>, <<0, 0>>, 0, 0, <<>>, TextLen(name))

IdLen(id) == Digits(id, 10)

(* ------------------------- provenance / hash ids ----------------------- *)
CharCode(id) == 48 + id

RECURSIVE JoinKey(_)
JoinKey(ids) ==
  IF Len(ids) = 1 THEN <<CharCode(ids[1])>>
  ELSE <<CharCode(Head(ids)), 0>> \o JoinKey(Tail(ids))

(* the unsigned 32-bit hash is kept as <<high half, low half>> *)
RECURSIVE Djb2(_, _)
Djb2(h, key) ==
  IF key = <<>> THEN h
  ELSE LET low == h[2] * 33 + Head(key)
           high == h[1] * 33 + (low \div HalfWord)
       IN Djb2(<<high % HalfWord, low % HalfWord>>, Tail(key))

(* the key joins the ids in the order given *)
makeSummaryIdUnsorted(ids) == Djb2(<<0, HashInit>>, JoinKey(ids))

makeSummaryId(ids) ==
  LET key == IF Len(ids) = 1 THEN <<CharCode(ids[1])>>
             ELSE JoinKey(SortAsc(Range(ids)))
  IN Djb2(<<0, HashInit>>, key)

(* "cce_sum_" and the base-36 digits; 36^6 = 33215 * 65536 + 4096 *)
SummaryIdLen(sid) ==
  8 + (IF sid[1] > 33215 \/ (sid[1] = 33215 /\ sid[2] >= 4096) THEN 7
       ELSE Digits(sid[1] * HalfWord + sid[2], 36))

collectParentIds(msgs) ==
  Flatten([i \in 1..Len(msgs) |->
             IF msgs[i].meta = <<>> THEN <<>> ELSE <<msgs[i].meta[1].summary_id>>])

Provenance(ids, srcMsgs, version) ==
  [ids |-> ids, summary_id |-> makeSummaryId(ids),
   parent_ids |-> collectParentIds(srcMsgs), version |-> version]

(* ------------------------------ messages ------------------------------- *)
Message(id, role, content, tc) ==
  [id |-> id, role |-> role, content |-> content, tool_calls |-> tc, meta |-> <<>>]

HasOriginal(m) == m.meta # <<>>

defaultTokenCounter(m) == (2 * m.content.len + 6) \div 7

sumTokens(msgs) == SumSeq([i \in 1..Len(msgs) |-> defaultTokenCounter(msgs[i])])

(* ---------------------------- summarizer -------------------------------- *)
(* paras: the paragraphs of the text, one per merged message.              *)
Candidates(paras) ==
  UNION {{[p |-> p, i |-> i, len |-> paras[p][i].len, score |-> paras[p][i].score,
           prim |-> \A j \in 1..Len(paras[p]) :
                       \/ paras[p][j].score < paras[p][i].score
                       \/ (paras[p][j].score = paras[p][i].score /\ i <= j)]
          : i \in 1..Len(paras[p])} : p \in 1..Len(paras)}

Before(c, d) ==
  \/ c.prim /\ ~d.prim
  \/ c.prim = d.prim /\ c.score > d.score
  \/ c.prim = d.prim /\ c.score = d.score /\ c.p < d.p
  \/ c.prim = d.prim /\ c.score = d.score /\ c.p = d.p /\ c.i <= d.i

RECURSIVE Pack(_, _, _)
Pack(S, used, budget) ==
  IF S = {} THEN used
  ELSE LET c == CHOOSE x \in S : \A y \in S : Before(x, y)
           cost == c.len + (IF used > 0 THEN JoinerLen ELSE 0)
       IN IF used + cost <= budget THEN Pack(S \ {c}, used + cost, budget)
          ELSE Pack(S \ {c}, used, budget)

ParasLen(paras) ==
  SumSeq([p \in 1..Len(paras) |-> SentsLen(paras[p])]) + 2 * (Len(paras) - 1)

summaryBudget(textLen) == IF textLen < BudgetSwitch THEN SmallBudget ELSE LargeBudget

(* length of the deterministic summary of the text *)
summaryLen(body, budget, textLen) == IF body = 0 THEN Min(budget, textLen) ELSE body

summarizeWithin(paras, budget) ==
  summaryLen(Pack(Candidates(paras), 0, budget), budget, ParasLen(paras))

summarize(paras) == summarizeWithin(paras, summaryBudget(ParasLen(paras)))

(* An external summarizer is modelled by what one call of it does:         *)
(* "throws" and "rejects" give no value, "nonstring" gives a value that is *)
(* not a string, "empty" gives "", "echo" gives the text it was passed,    *)
(* "fixed" gives a string of len characters; "none" is no summarizer.      *)
(* "unstable" is an LLM whose replies differ from call to call: a string   *)
(* of ProbeReplyLen characters while the budget search probes, a string of *)
(* len characters in the final pass.                                       *)
Summarizer(kind, len) == [kind |-> kind, len |-> len]

NoSummarizer == Summarizer("none", 0)

returnsString(s) == s.kind \in {"empty", "echo", "fixed", "unstable"}

replyLen(s, textLen) ==
  IF s.kind = "echo" THEN textLen
  ELSE IF s.kind = "fixed" THEN s.len
  ELSE IF s.kind = "unstable" THEN ProbeReplyLen
  ELSE 0

(* the summarizer as it answers in the final pass of a budget search *)
finalPass(s) == IF s.kind = "unstable" THEN Summarizer("fixed", s.len) ELSE s

(* every string the summarizer returns is taken *)
withFallbackUnchecked(paras, s) ==
  IF returnsString(s) THEN replyLen(s, ParasLen(paras)) ELSE summarize(paras)

(* length of the summary text: the reply if it is a non-empty string       *)
(* strictly shorter than the text, else the deterministic summary          *)
withFallback(paras, s) ==
  IF returnsString(s) /\ replyLen(s, ParasLen(paras)) > 0
                      /\ replyLen(s, ParasLen(paras)) < ParasLen(paras)
  THEN replyLen(s, ParasLen(paras))
  ELSE summarize(paras)

(* the sync path summarizes itself, the async path asks the summarizer *)
summaryText(paras, s) ==
  IF s.kind = "none" THEN summarize(paras) ELSE withFallback(paras, s)

(* " | entities: a, b, c" over the first MaxEntities entities of the text *)
entityListLen(ents) ==
  IF ents = <<>> THEN 0 ELSE 13 + SumSeq(ents) + 2 * (Len(ents) - 1)

firstEntities(all) == SubSeq(all, 1, Min(MaxEntities, Len(all)))

entitySuffixLen(names) ==
  entityListLen(firstEntities(Flatten([i \in 1..Len(names) |-> Catalogue[names[i]].ents])))

mergeSuffixLen(k) == IF k > 1 THEN 19 + Digits(k, 10) ELSE 0

summaryPrefixLen(embed, sid) == IF embed THEN 9 + SummaryIdLen(sid) + 2 ELSE 10

(* [summary: <text><merge_suffix><entity_suffix>] *)
SummaryContent(names, embed, sid, s) ==
  LET paras == [i \in 1..Len(names) |-> Catalogue[names[i]].sents]
  IN Content("summary", names, IF embed THEN sid ELSE <<0, 0>>, Len(names), 0, <<>>,
             summaryPrefixLen(embed, sid) + summaryText(paras, s)
               + mergeSuffixLen(Len(names)) + entitySuffixLen(names) + 1)

(* [summary: <prose_summary>]\n\n<fences> *)
SplitContent(name, embed, sid, s) ==
  Content("split", <<name>>, IF embed THEN sid ELSE <<0, 0>>, 1, 0, <<>>,
          summaryPrefixLen(embed, sid) + summaryText(<<Catalogue[name].sents>>, s) + 1
            + 2 + Catalogue[name].fence)

(* [cce:dup of <id> -- <len> chars] *)
DupContent(target, origLen) ==
  Content("dup", <<>>, <<0, target>>, origLen, 0, <<>>,
          12 + IdLen(target) + 3 + Digits(origLen, 10) + 7)

(* [cce:near-dup of <id> -- <len> chars, ~<pct>% match] *)
NearDupContent(target, origLen, pct) ==
  Content("neardup", <<>>, <<0, target>>, origLen, pct, <<>>,
          17 + IdLen(target) + 3 + Digits(origLen, 10) + 9 + Digits(pct, 10) + 8)

(* [truncated -- <origLen> chars: <first 512 chars>] *)
TruncContent(c) ==
  Content("trunc", <<>>, <<0, 0>>, c.len, 0, <<c>>,
          13 + Digits(c.len, 10) + 8 + Min(TruncateLen, c.len) + 1)

(* only a plain summary is recognised as compressed *)
AlreadyCompressedSummaryOnly(c) == c.kind = "summary"

AlreadyCompressed(c) == c.kind \in {"summary", "split", "trunc"}

(* ------------------------------ dedup ---------------------------------- *)
InWindow(idx, n, w) == w > 0 /\ idx > n - w

dedupEligible(m, preserve) ==
  /\ m.role \notin preserve
  /\ ~m.tool_calls
  /\ ~AlreadyCompressed(m.content)
  /\ m.content.len >= DedupMinLen

(* a selection that always keeps the earliest member *)
keepTargetEarliest(G, n, w) == CHOOSE j \in G : \A k \in G : j <= k

keepTarget(G, n, w) ==
  IF \E j \in G : InWindow(j, n, w)
  THEN CHOOSE j \in G : InWindow(j, n, w) /\ \A k \in G : InWindow(k, n, w) => j <= k
  ELSE CHOOSE j \in G : \A k \in G : k <= j

NoAnn == [type |-> "none", target |-> 0, pct |-> 0]

annotate(i, G, n, w, type, pct) ==
  LET keep == keepTarget(G, n, w)
  IN IF Cardinality(G) >= 2 /\ keep # i
     THEN [type |-> type, target |-> keep, pct |-> pct[keep]]
     ELSE NoAnn

exactAnnotations(msgs, w, preserve) ==
  LET n == Len(msgs)
      E == {i \in 1..n : dedupEligible(msgs[i], preserve)}
      zero == [j \in 1..n |-> 0]
  IN AsSeq([i \in 1..n |->
        IF i \in E
        THEN annotate(i, {j \in E : msgs[j].content = msgs[i].content}, n, w, "dup", zero)
        ELSE NoAnn])

ContentLines(c) == IF c.kind = "raw" THEN Catalogue[c.src[1]].lines ELSE <<>>

Count(x, s) == Cardinality({i \in 1..Len(s) : s[i] = x})

Fingerprint(lines) == {lines[i] : i \in 1..Min(FingerprintLines, Len(lines))}

(* multiset Jaccard as the pair <<|A n B|, |A u B|>> *)
jaccardOver(us, a, b) ==
  <<SumSeq([k \in 1..Len(us) |-> Min(Count(us[k], a), Count(us[k], b))]),
    SumSeq([k \in 1..Len(us) |-> Max(Count(us[k], a), Count(us[k], b))])>>

jaccard(a, b) == jaccardOver(SortAsc(Range(a) \cup Range(b)), a, b)

(* the similarity as a rounded percentage *)
RatioPct(j) == (200 * j[1] + j[2]) \div (2 * j[2])

SimPct(a, b) == RatioPct(jaccard(a, b))

AboveThreshold(j) == 100 * j[1] >= FuzzyThresholdPct * j[2]

fuzzyLines(a, b) ==
  /\ Cardinality(Fingerprint(a) \cap Fingerprint(b)) >= MinSharedLines
  /\ AboveThreshold(jaccard(a, b))

fuzzyPair(ci, cj) ==
  /\ 100 * Min(ci.len, cj.len) >= MinLenRatioPct * Max(ci.len, cj.len)
  /\ fuzzyLines(ContentLines(ci), ContentLines(cj))

RECURSIVE Component(_, _, _)
Component(S, E, pair) ==
  LET T == S \cup {j \in E : \E i \in S : pair[i][j] \/ pair[j][i]}
  IN IF T = S THEN S ELSE Component(T, E, pair)

fuzzyEligible(msgs, preserve, exact) ==
  {i \in 1..Len(msgs) : /\ dedupEligible(msgs[i], preserve)
                        /\ exact[i].type = "none"
                        /\ Len(ContentLines(msgs[i].content)) >= 2}

fuzzyPairs(msgs, E) ==
  AsSeq([i \in 1..Len(msgs) |-> AsSeq([j \in 1..Len(msgs) |->
     i \in E /\ j \in E /\ i < j /\ fuzzyPair(msgs[i].content, msgs[j].content)])])

similarities(msgs, i) ==
  [j \in 1..Len(msgs) |-> SimPct(ContentLines(msgs[i].content),
                                 ContentLines(msgs[j].content))]

fuzzyGroups(msgs, w, exact, E, pair) ==
  AsSeq([i \in 1..Len(msgs) |->
     IF i \in E
     THEN annotate(i, Component({i}, E, pair), Len(msgs), w, "neardup",
                   similarities(msgs, i))
     ELSE exact[i]])

fuzzyAmong(msgs, w, exact, E) == fuzzyGroups(msgs, w, exact, E, fuzzyPairs(msgs, E))

fuzzyAnnotations(msgs, w, preserve, exact) ==
  fuzzyAmong(msgs, w, exact, fuzzyEligible(msgs, preserve, exact))

fuzzyStage(msgs, w, o, exact) ==
  IF o.fuzzyDedup THEN fuzzyAnnotations(msgs, w, o.preserve, exact) ELSE exact

dedupAnnotations(msgs, w, o) ==
  fuzzyStage(msgs, w, o,
             IF o.dedup THEN exactAnnotations(msgs, w, o.preserve)
             ELSE AsSeq([i \in 1..Len(msgs) |-> NoAnn]))

(* ----------------------------- classifier ------------------------------ *)
TextClass(c) == IF c.kind = "raw" THEN Catalogue[c.src[1]].kind ELSE "hard"
FenceLen(c) == IF c.kind = "raw" THEN Catalogue[c.src[1]].fence ELSE 0

classify(msgs, idx, w, preserve, ann) ==
  LET m == msgs[idx]
      c == m.content
  IN IF m.role \in preserve THEN "preserved"
     ELSE IF InWindow(idx, Len(msgs), w) THEN "preserved"
     ELSE IF m.tool_calls THEN "preserved"
     ELSE IF c.len < ShortLimit THEN "preserved"
     ELSE IF AlreadyCompressed(c) THEN "preserved"
     ELSE IF ann[idx].type # "none" THEN "dedup"
     ELSE IF FenceLen(c) > 0 /\ ProseLen(c.src[1]) >= MinSplitProse THEN "split"
     ELSE IF FenceLen(c) > 0 THEN "preserved"
     ELSE IF TextClass(c) = "hard" THEN "preserved"
     ELSE "compress"

(* ------------------------- pipeline orchestrator ----------------------- *)
(* provenance that names only the first of the replaced messages *)
RewrittenFirstId(base, content, srcMsgs, version) ==
  [base EXCEPT !.content = content,
               !.meta = <<Provenance(<<srcMsgs[1].id>>, srcMsgs, version)>>]

Rewritten(base, content, srcMsgs, version) ==
  [base EXCEPT !.content = content,
               !.meta = <<Provenance([k \in 1..Len(srcMsgs) |-> srcMsgs[k].id],
                                     srcMsgs, version)>>]

(* the messages from idx on that join idx's group: compressible, same role *)
RECURSIVE collectGroup(_, _, _, _)
collectGroup(msgs, idx, role, dec) ==
  IF idx > Len(msgs) \/ dec[idx] # "compress" \/ msgs[idx].role # role THEN <<>>
  ELSE <<msgs[idx]>> \o collectGroup(msgs, idx + 1, role, dec)

GroupLen(group) == SumSeq([k \in 1..Len(group) |-> group[k].content.len])

(* one emission: the emitted messages and the originals they replace *)
Emission(out, originals) == [out |-> out, originals |-> originals]

dedupContent(a, tid, origLen) ==
  IF a.type = "dup" THEN DupContent(tid, origLen)
  ELSE NearDupContent(tid, origLen, a.pct)

replaceOne(m, c, o) == Emission(<<Rewritten(m, c, <<m>>, o.sourceVersion)>>, <<m>>)

emitDedup(msgs, idx, ann, o) ==
  replaceOne(msgs[idx],
             dedupContent(ann[idx], msgs[ann[idx].target].id, msgs[idx].content.len), o)

(* size guard: a rewrite that is not shorter is dropped *)
guardOne(m, c, o) ==
  IF c.len >= m.content.len THEN Emission(<<m>>, <<>>) ELSE replaceOne(m, c, o)

emitSplit(m, o) ==
  guardOne(m, SplitContent(m.content.src[1], o.embedSummaryId, makeSummaryId(<<m.id>>),
                          o.summarizer), o)

groupSummary(group, o) ==
  SummaryContent([k \in 1..Len(group) |-> group[k].content.src[1]],
                 o.embedSummaryId,
                 makeSummaryId([k \in 1..Len(group) |-> group[k].id]),
                 o.summarizer)

(* the merged rewrite built on the last member of the group *)
emitGroupOnLast(group, c, o) ==
  IF c.len >= GroupLen(group) THEN Emission(group, <<>>)
  ELSE Emission(<<Rewritten(group[Len(group)], c, group, o.sourceVersion)>>, group)

(* a merge that folds only the first two members of the group *)
emitGroupFirstTwo(group, c, o) ==
  IF c.len >= GroupLen(group) THEN Emission(group, <<>>)
  ELSE IF Len(group) < 3
  THEN Emission(<<Rewritten(group[1], c, group, o.sourceVersion)>>, group)
  ELSE Emission(<<Rewritten(group[1], c, SubSeq(group, 1, 2), o.sourceVersion)>>
                  \o SubSeq(group, 3, Len(group)),
                SubSeq(group, 1, 2))

(* size guard: a merge that is not shorter is abandoned, members pass through *)
emitGroup(group, c, o) ==
  IF c.len >= GroupLen(group) THEN Emission(group, <<>>)
  ELSE Emission(<<Rewritten(group[1], c, group, o.sourceVersion)>>, group)

RECURSIVE walk(_, _, _, _, _)
RECURSIVE walkGroup(_, _, _, _, _, _)
walkGroup(msgs, idx, dec, ann, o, group) ==
  <<emitGroup(group, groupSummary(group, o), o)>>
    \o walk(msgs, idx + Len(group), dec, ann, o)

emitAt(msgs, idx, dec, ann, o) ==
  IF dec[idx] = "preserved" THEN Emission(<<msgs[idx]>>, <<>>)
  ELSE IF dec[idx] = "dedup" THEN emitDedup(msgs, idx, ann, o)
  ELSE emitSplit(msgs[idx], o)

walk(msgs, idx, dec, ann, o) ==
  IF idx > Len(msgs) THEN <<>>
  ELSE IF dec[idx] = "compress"
       THEN walkGroup(msgs, idx, dec, ann, o, collectGroup(msgs, idx, msgs[idx].role, dec))
       ELSE <<emitAt(msgs, idx, dec, ann, o)>> \o walk(msgs, idx + 1, dec, ann, o)

ToVerbatim(originals) ==
  [id \in {originals[k].id : k \in 1..Len(originals)} |->
     originals[CHOOSE k \in 1..Len(originals) : originals[k].id = id]]

EmptyVerbatim == ToVerbatim(<<>>)

Result(messages, verbatim, fits, tokenCount, recencyWindow, steps) ==
  [messages |-> messages, verbatim |-> verbatim, fits |-> fits,
   tokenCount |-> tokenCount, recencyWindow |-> recencyWindow, truncated |-> steps]

(* one run of the pipeline with recency window w *)
assemble(out, verbatim, w) == Result(out, verbatim, TRUE, sumTokens(out), w, <<>>)

collect(ems, w) ==
  assemble(Flatten([k \in 1..Len(ems) |-> ems[k].out]),
           ToVerbatim(Flatten([k \in 1..Len(ems) |-> ems[k].originals])), w)

decisions(msgs, w, o, ann) ==
  AsSeq([i \in 1..Len(msgs) |-> classify(msgs, i, w, o.preserve, ann)])

runPipeline(msgs, w, o, ann) ==
  collect(walk(msgs, 1, decisions(msgs, w, o, ann), ann, o), w)

compressSync(msgs, w, o) == runPipeline(msgs, w, o, dedupAnnotations(msgs, w, o))

(* the messages at which the walk asks for a summary: the first member of  *)
(* each group and each code-split message, in message order                *)
callStarts(msgs, dec) ==
  SortAsc({i \in 1..Len(msgs) :
             \/ dec[i] = "split"
             \/ /\ dec[i] = "compress"
                /\ (i = 1 \/ dec[i - 1] # "compress" \/ msgs[i - 1].role # msgs[i].role)})

(* the external calls one run of the async pipeline makes *)
summarizerCalls(msgs, w, o) ==
  IF o.summarizer.kind = "none" THEN <<>>
  ELSE callStarts(msgs, decisions(msgs, w, o, dedupAnnotations(msgs, w, o)))

(* the calls are started from the right *)
nextCallFromRight(due, calls) == due[Len(due) - Len(calls)]

(* the next call is that of the leftmost group not yet summarized *)
nextCall(due, calls) == due[Len(calls) + 1]

(* a call is started while others are in flight *)
mayCallAlways(inflight) == TRUE

(* each call is awaited before the next one starts *)
mayCall(inflight) == inflight = 0

(* ------------------------------ budget search -------------------------- *)
fitsBudget(cr, budget) == cr.tokenCount <= budget

(* the window probed next is the upper end of the interval *)
probeWindowTop(lo, hi) == hi

(* mid = ceil((lo + hi) / 2) *)
probeWindow(lo, hi) == (lo + hi + 1) \div 2

RECURSIVE searchWindow(_, _, _, _)
searchWindow(msgs, lo, hi, o) ==
  IF lo >= hi THEN lo
  ELSE LET mid == probeWindow(lo, hi)
       IN IF fitsBudget(compressSync(msgs, mid, o), o.tokenBudget)
          THEN searchWindow(msgs, mid, hi, o)
          ELSE searchWindow(msgs, lo, mid - 1, o)

(* eligible indices of cr.messages, longest content first *)
RECURSIVE sortByLenDesc(_, _)
sortByLenDesc(S, msgs) ==
  IF S = {} THEN <<>>
  ELSE LET i == CHOOSE x \in S : \A y \in S :
                   \/ msgs[x].content.len > msgs[y].content.len
                   \/ (msgs[x].content.len = msgs[y].content.len /\ x <= y)
       IN <<i>> \o sortByLenDesc(S \ {i}, msgs)

(* candidates taken from the whole sequence, the recency window included *)
truncateCandidatesAnywhere(cr, preserve) ==
  sortByLenDesc({i \in 1..Len(cr.messages) : /\ cr.messages[i].role \notin preserve
                                             /\ cr.messages[i].content.len > TruncateLen},
                cr.messages)

truncateCandidates(cr, preserve) ==
  LET cutoff == Max(0, Len(cr.messages) - cr.recencyWindow)
  IN sortByLenDesc({i \in 1..cutoff : /\ cr.messages[i].role \notin preserve
                                      /\ cr.messages[i].content.len > TruncateLen},
                   cr.messages)

truncateMessage(m, version) ==
  IF HasOriginal(m) THEN [m EXCEPT !.content = TruncContent(m.content)]
  ELSE Rewritten(m, TruncContent(m.content), <<m>>, version)

(* the verbatim map left as it was *)
truncateVerbatimNever(verbatim, m) == verbatim

(* the truncated message stored whether or not it was already compressed *)
truncateVerbatimAlways(verbatim, m) == ToVerbatim(<<m>>) @@ verbatim

(* the original of a message that was not compressed before goes to verbatim *)
truncateVerbatim(verbatim, m) ==
  IF HasOriginal(m) THEN verbatim ELSE ToVerbatim(<<m>>) @@ verbatim

(* the token count of the search result kept after a truncation *)
truncatedTokenCountStale(count, m, t) == count

(* the running total after message m became t *)
truncatedTokenCount(count, m, t) ==
  count - defaultTokenCounter(m) + defaultTokenCounter(t)

(* message i of cr replaced by its truncation t *)
truncateAt(cr, i, t) ==
  [cr EXCEPT !.messages[i] = t,
             !.verbatim = truncateVerbatim(cr.verbatim, cr.messages[i]),
             !.tokenCount = truncatedTokenCount(cr.tokenCount, cr.messages[i], t),
             !.truncated = Append(cr.truncated, i)]

(* a pass that truncates every candidate, whether or not the budget is met *)
RECURSIVE truncateLoopAll(_, _, _, _)
truncateLoopAll(cr, cands, budget, version) ==
  IF cands = <<>>
  THEN [cr EXCEPT !.fits = cr.tokenCount <= budget]
  ELSE truncateLoopAll(
         truncateAt(cr, Head(cands), truncateMessage(cr.messages[Head(cands)], version)),
         Tail(cands), budget, version)

RECURSIVE truncateLoop(_, _, _, _)
truncateLoop(cr, cands, budget, version) ==
  IF cands = <<>> \/ cr.tokenCount <= budget
  THEN [cr EXCEPT !.fits = cr.tokenCount <= budget]
  ELSE truncateLoop(
         truncateAt(cr, Head(cands), truncateMessage(cr.messages[Head(cands)], version)),
         Tail(cands), budget, version)

forceConvergePass(cr, o) ==
  IF cr.fits THEN cr
  ELSE truncateLoop(cr, truncateCandidates(cr, o.preserve), o.tokenBudget, o.sourceVersion)

withFits(cr, budget) == [cr EXCEPT !.fits = fitsBudget(cr, budget)]

converge(final, o) == IF o.forceConverge THEN forceConvergePass(final, o) ELSE final

(* the final run at lo, then the truncation pass when asked for *)
finish(cr, o) == converge(withFits(cr, o.tokenBudget), o)

(* an input that already fits is returned untouched *)
budgetFastPath(msgs) ==
  Result(msgs, EmptyVerbatim, TRUE, sumTokens(msgs), Len(msgs), <<>>)

(* the options of the final pass: the summarizer is called again *)
atFinalPass(o) == [o EXCEPT !.summarizer = finalPass(o.summarizer)]

(* the search run even for an input that already fits *)
compressWithBudgetAlwaysSearch(msgs, o) ==
  finish(compressSync(msgs, searchWindow(msgs, o.minRecencyWindow, Len(msgs) - 1, o),
                      atFinalPass(o)), o)

compressWithBudget(msgs, o) ==
  IF sumTokens(msgs) <= o.tokenBudget
  THEN budgetFastPath(msgs)
  ELSE finish(compressSync(msgs,
                            searchWindow(msgs, o.minRecencyWindow, Len(msgs) - 1, o),
                            atFinalPass(o)),
              o)

compress(msgs, o) ==
  IF o.tokenBudget > 0 THEN compressWithBudget(msgs, o)
  ELSE compressSync(msgs, o.recencyWindow, o)

(* ------------------------------ decompressor --------------------------- *)
Lookup(store, id) == IF id \in DOMAIN store THEN <<store[id]>> ELSE <<>>

(* the ids found are expanded, the absent ones dropped *)
expandIdsPartial(m, ids, store, miss) ==
  [out |-> [k \in 1..Len(SelectSeq(ids, LAMBDA id : id \in DOMAIN store)) |->
              store[SelectSeq(ids, LAMBDA id : id \in DOMAIN store)[k]]],
   missing |-> miss, expanded |-> 1]

expandIds(m, ids, store, miss) ==
  IF miss # <<>> THEN [out |-> <<m>>, missing |-> miss, expanded |-> 0]
  ELSE [out |-> [k \in 1..Len(ids) |-> store[ids[k]]], missing |-> <<>>, expanded |-> 1]

expandOne(m, store) ==
  IF ~HasOriginal(m) THEN [out |-> <<m>>, missing |-> <<>>, expanded |-> 0]
  ELSE expandIds(m, m.meta[1].ids, store,
                 SelectSeq(m.meta[1].ids, LAMBDA id : id \notin DOMAIN store))

(* rounds: the number of passes made (kept for the properties) *)
gather(rs) ==
  [messages |-> Flatten([i \in 1..Len(rs) |-> rs[i].out]),
   missing_ids |-> Flatten([i \in 1..Len(rs) |-> rs[i].missing]),
   messages_expanded |-> SumSeq([i \in 1..Len(rs) |-> rs[i].expanded]),
   rounds |-> 1]

(* one left-to-right pass *)
uncompressPass(msgs, store) ==
  gather(AsSeq([i \in 1..Len(msgs) |-> expandOne(msgs[i], store)]))

RECURSIVE uncompressDeep(_, _, _)
RECURSIVE deeper(_, _, _, _)
(* the depth limit passed by one *)
uncompressDeepOneMore(acc, store, depth) ==
  IF depth >= MaxDepth + 1 \/ ~\E i \in 1..Len(acc.messages) : HasOriginal(acc.messages[i])
  THEN acc
  ELSE deeper(acc, uncompressPass(acc.messages, store), store, depth)

uncompressDeep(acc, store, depth) ==
  IF depth >= MaxDepth \/ ~\E i \in 1..Len(acc.messages) : HasOriginal(acc.messages[i])
  THEN acc
  ELSE deeper(acc, uncompressPass(acc.messages, store), store, depth)

deeper(acc, r, store, depth) ==
  IF r.messages_expanded = 0 THEN acc
  ELSE uncompressDeep(
         [messages |-> r.messages,
          missing_ids |-> acc.missing_ids \o r.missing_ids,
          messages_expanded |-> acc.messages_expanded + r.messages_expanded,
          rounds |-> acc.rounds + 1],
         store, depth + 1)

expandFurther(first, store, recursive) ==
  IF recursive /\ first.messages_expanded > 0
  THEN uncompressDeep(first, store, 1)
  ELSE first

uncompress(msgs, store, recursive) ==
  expandFurther(uncompressPass(msgs, store), store, recursive)

(* --------------------------- input validation -------------------------- *)
(* An argument is kept with what it is: an array of entries or something   *)
(* else; a store is a mapping, a lookup function, or something else.       *)
MessagesArg(array, entries) == [array |-> array, entries |-> entries]

StoreArg(kind, map) == [kind |-> kind, map |-> map]

NullEntry == <<>>

WithoutId(m) == [f \in DOMAIN m \ {"id"} |-> m[f]]

(* content: null, absent, "" *)
NoContent(kind) == Content(kind, <<>>, <<0, 0>>, 0, 0, <<>>, 0)

hasId(e) == "id" \in DOMAIN e

validMessages(arg) ==
  arg.array /\ \A i \in 1..Len(arg.entries) : hasId(arg.entries[i])

validStore(sarg) == sarg.kind \in {"mapping", "function"}

TypeError == [error |-> "TypeError"]

(* the call returned a result instead of raising *)
returned(r) == "messages" \in DOMAIN r

(* a message without content is refused as well *)
compressCheckedStrict(arg, o) ==
  IF validMessages(arg) /\ \A i \in 1..Len(arg.entries) : arg.entries[i].content.len > 0
  THEN compress(arg.entries, o)
  ELSE TypeError

compressChecked(arg, o) ==
  IF validMessages(arg) THEN compress(arg.entries, o) ELSE TypeError

uncompressChecked(arg, sarg, recursive) ==
  IF arg.array /\ validStore(sarg) THEN uncompress(arg.entries, sarg.map, recursive)
  ELSE TypeError

(* ------------------------------ the system ----------------------------- *)
(* A caller assembles a conversation, compresses it (round 1), and either  *)
(* uncompresses the result with its verbatim store, or compresses the      *)
(* emitted messages again with the same options (round 2) and uncompresses *)
(* them with the round-2 store or, recursively, with the merged stores.    *)
VARIABLES
  input,      \* the messages handed to round 1
  opts,       \* the options of the compress calls
  round,      \* number of compress calls made
  callInput,  \* the messages handed to the latest compress call
  result,     \* the result of the latest compress call
  store1,     \* the verbatim map returned by round 1
  restored,   \* the result of the latest uncompress call
  store,      \* the store handed to the latest uncompress call
  search,     \* the budget search in progress: its interval and pipeline runs
  pc          \* "build" | "searching" | "running" | "compressed" | "restored" |
              \* "deep" |
              \* "lossy" | "cyclic"

vars == <<input, opts, round, callInput, result, store1, restored, store, search, pc>>

Templates ==
  {<<"system", "C", FALSE>>, <<"user", "P", FALSE>>, <<"user", "J", FALSE>>,
   <<"user", "P2", FALSE>>, <<"assistant", "C", TRUE>>, <<"assistant", "F", FALSE>>,
   <<"assistant", "C", FALSE>>}

Budgets == {60, 255}
MinWindows == {0, 1, MaxMsgs + 1}

DefaultOptions ==
  [preserve |-> {"system"}, recencyWindow |-> 4, dedup |-> TRUE, fuzzyDedup |-> FALSE,
   tokenBudget |-> 0, minRecencyWindow |-> 0, forceConverge |-> FALSE,
   embedSummaryId |-> FALSE, sourceVersion |-> 0, summarizer |-> NoSummarizer]

DedupModes == {<<FALSE, FALSE>>, <<TRUE, FALSE>>, <<TRUE, TRUE>>}

Options ==
  {[DefaultOptions EXCEPT !.recencyWindow = w, !.dedup = d[1], !.fuzzyDedup = d[2],
                          !.embedSummaryId = e]
     : w \in 0..MaxWindow, d \in DedupModes, e \in BOOLEAN}
  \cup
  {[DefaultOptions EXCEPT !.tokenBudget = b, !.minRecencyWindow = m,
                          !.forceConverge = c, !.dedup = d[1], !.fuzzyDedup = d[2]]
     : b \in Budgets, m \in MinWindows, c \in BOOLEAN, d \in DedupModes}

(* the summarizers of the async calls: the failing ones and two mocks *)
Summarizers ==
  {Summarizer(k, 0) : k \in {"throws", "rejects", "nonstring", "empty", "echo"}}
  \cup {Summarizer("fixed", 27), Summarizer("fixed", 150)}

AsyncOptions ==
  {[DefaultOptions EXCEPT !.summarizer = s, !.recencyWindow = w]
     : s \in Summarizers, w \in 0..MaxWindow}
  \cup
  {[DefaultOptions EXCEPT !.summarizer = s, !.tokenBudget = b]
     : s \in Summarizers \cup {Summarizer("unstable", 150)}, b \in Budgets}

(* the option combinations with embedSummaryId: true *)
EmbedOptions ==
  {[DefaultOptions EXCEPT !.embedSummaryId = TRUE, !.recencyWindow = w,
                          !.dedup = d[1], !.fuzzyDedup = d[2]]
     : w \in 0..MaxWindow, d \in DedupModes}
  \cup
  {[DefaultOptions EXCEPT !.embedSummaryId = TRUE, !.tokenBudget = b,
                          !.forceConverge = c, !.dedup = d[1], !.fuzzyDedup = d[2]]
     : b \in Budgets, c \in BOOLEAN, d \in DedupModes}

NoResult == Result(<<>>, EmptyVerbatim, TRUE, 0, 0, <<>>)
NoRestore == [messages |-> <<>>, missing_ids |-> <<>>, messages_expanded |-> 0, rounds |-> 0]

NoSearch == [lo |-> 0, hi |-> 0, runs |-> 0, window |-> 0, calls |-> <<>>, inflight |-> 0]

Init ==
  /\ input = <<>>
  /\ opts = DefaultOptions
  /\ round = 0
  /\ callInput = <<>>
  /\ result = NoResult
  /\ store1 = EmptyVerbatim
  /\ restored = NoRestore
  /\ store = EmptyVerbatim
  /\ search = NoSearch
  /\ pc = "build"

AddMessage ==
  /\ pc = "build"
  /\ Len(input) < MaxMsgs
  /\ \E t \in Templates :
       input' = Append(input, Message(Len(input) + 1, t[1], Raw(t[2]), t[3]))
  /\ UNCHANGED <<opts, round, callInput, result, store1, restored, store, pc, search>>

Compress ==
  /\ pc = "build"
  /\ \E o \in Options :
       /\ opts' = o
       /\ result' = compress(input, o)
  /\ store1' = result'.verbatim
  /\ callInput' = input
  /\ round' = 1
  /\ pc' = "compressed"
  /\ UNCHANGED <<input, restored, store, search>>

(* await compress(messages, {summarizer, ...}) *)
CompressAsync ==
  /\ pc = "build"
  /\ \E o \in AsyncOptions :
       /\ opts' = o
       /\ result' = compress(input, o)
  /\ store1' = result'.verbatim
  /\ callInput' = input
  /\ round' = 1
  /\ pc' = "compressed"
  /\ UNCHANGED <<input, restored, store, search>>

(* what a caller may put into the array besides well-formed messages *)
Entries(id) ==
  {NullEntry,
   WithoutId(Message(id, "user", Raw("J"), FALSE)),
   Message(id, "user", NoContent("null"), FALSE),
   Message(id, "user", NoContent("absent"), FALSE),
   Message(id, "user", NoContent("raw"), FALSE),
   Message(id, "user", Raw("P"), FALSE),
   Message(id, "user", Raw("J"), FALSE)}

CheckedOptions ==
  {[DefaultOptions EXCEPT !.recencyWindow = w] : w \in {0, 1}}
  \cup {[DefaultOptions EXCEPT !.tokenBudget = 60, !.forceConverge = TRUE]}

AddEntry ==
  /\ pc = "build"
  /\ Len(input) < MaxMsgs
  /\ \E e \in Entries(Len(input) + 1) : input' = Append(input, e)
  /\ UNCHANGED <<opts, round, callInput, result, store1, restored, store, pc, search>>

(* compress(x, options) with x the array built so far, or not an array *)
CompressChecked ==
  /\ pc = "build"
  /\ \E o \in CheckedOptions, array \in BOOLEAN :
       /\ opts' = o
       /\ callInput' = MessagesArg(array, IF array THEN input ELSE <<>>)
       /\ result' = compressChecked(callInput', o)
  /\ store1' = IF returned(result') THEN result'.verbatim ELSE EmptyVerbatim
  /\ round' = 1
  /\ pc' = "compressed"
  /\ UNCHANGED <<input, restored, store, search>>

(* uncompress(x, store) with x the emitted messages or not an array, and   *)
(* store the verbatim map, a lookup function over it, or null              *)
UncompressChecked ==
  /\ pc = "compressed"
  /\ returned(result)
  /\ \E array \in BOOLEAN, kind \in {"mapping", "function", "null"} :
       /\ callInput' = MessagesArg(array, IF array THEN result.messages ELSE <<>>)
       /\ store' = StoreArg(kind, IF kind = "null" THEN EmptyVerbatim ELSE result.verbatim)
       /\ restored' = uncompressChecked(callInput', store', FALSE)
  /\ pc' = "restored"
  /\ UNCHANGED <<input, opts, round, result, store1, search>>

(* a caller whose message ids do not follow the order of the messages *)
AddMessageWithId ==
  /\ pc = "build"
  /\ Len(input) < MaxMsgs
  /\ \E id \in 1..MaxId, name \in {"P", "J"} :
       /\ \A i \in 1..Len(input) : input[i].id # id
       /\ input' = Append(input, Message(id, "user", Raw(name), FALSE))
  /\ UNCHANGED <<opts, round, callInput, result, store1, restored, store, pc, search>>

(* compress(messages, {embedSummaryId: true, ...}) *)
CompressEmbed ==
  /\ pc = "build"
  /\ \E o \in EmbedOptions :
       /\ opts' = o
       /\ result' = compress(input, o)
  /\ store1' = result'.verbatim
  /\ callInput' = input
  /\ round' = 1
  /\ pc' = "compressed"
  /\ UNCHANGED <<input, restored, store, search>>

(* a conversation of prose turns of both speakers *)
AddProse ==
  /\ pc = "build"
  /\ Len(input) < MaxMsgs
  /\ \E role \in {"user", "assistant"}, name \in {"P", "J", "E"} :
       input' = Append(input, Message(Len(input) + 1, role, Raw(name), FALSE))
  /\ UNCHANGED <<opts, round, callInput, result, store1, restored, store, search, pc>>

(* a conversation of short and long prose turns and fenced code answers *)
AddTurn ==
  /\ pc = "build"
  /\ Len(input) < MaxTurns
  /\ \E t \in {<<"user", "P">>, <<"user", "J">>, <<"assistant", "F">>} :
       input' = Append(input, Message(Len(input) + 1, t[1], Raw(t[2]), FALSE))
  /\ UNCHANGED <<opts, round, callInput, result, store1, restored, store, search, pc>>

(* compress with a token budget that the input exceeds: the search starts  *)
(* with lo = minRecencyWindow, hi = messages.length - 1                    *)
StartSearch ==
  /\ pc = "build"
  /\ \E b \in Budgets \cup {360}, m \in {0, 1}, c \in BOOLEAN, d \in BOOLEAN,
        s \in {NoSummarizer, Summarizer("unstable", 150)} :
       opts' = [DefaultOptions EXCEPT !.tokenBudget = b, !.minRecencyWindow = m,
                                      !.forceConverge = c, !.dedup = d,
                                      !.summarizer = s]
  /\ sumTokens(input) > opts'.tokenBudget
  /\ callInput' = input
  /\ search' = [NoSearch EXCEPT !.lo = opts'.minRecencyWindow, !.hi = Len(input) - 1]
  /\ round' = 1
  /\ pc' = "searching"
  /\ UNCHANGED <<input, result, store1, restored, store>>

(* one probe: the pipeline run at mid, then lo = mid or hi = mid - 1 *)
Probe ==
  /\ pc = "searching"
  /\ search.lo < search.hi
  /\ result' = compressSync(callInput, probeWindow(search.lo, search.hi), opts)
  /\ search' = IF fitsBudget(result', opts.tokenBudget)
               THEN [search EXCEPT !.lo = probeWindow(search.lo, search.hi),
                                   !.runs = search.runs + 1]
               ELSE [search EXCEPT !.hi = probeWindow(search.lo, search.hi) - 1,
                                   !.runs = search.runs + 1]
  /\ UNCHANGED <<input, opts, round, callInput, store1, restored, store, pc>>

(* the final run at lo, then the truncation pass when asked for *)
FinalPass ==
  /\ pc = "searching"
  /\ search.lo >= search.hi
  /\ result' = finish(compressSync(callInput, search.lo, atFinalPass(opts)), opts)
  /\ search' = [search EXCEPT !.runs = search.runs + 1]
  /\ store1' = result'.verbatim
  /\ pc' = "compressed"
  /\ UNCHANGED <<input, opts, round, callInput, restored, store>>

(* await compress(messages, {summarizer, tokenBudget}) over the budget *)
StartAsyncSearch ==
  /\ pc = "build"
  /\ \E b \in Budgets, s \in {Summarizer("fixed", 27), Summarizer("unstable", 150)} :
       opts' = [DefaultOptions EXCEPT !.tokenBudget = b, !.summarizer = s]
  /\ sumTokens(input) > opts'.tokenBudget
  /\ callInput' = input
  /\ search' = [NoSearch EXCEPT !.lo = opts'.minRecencyWindow, !.hi = Len(input) - 1]
  /\ round' = 1
  /\ pc' = "searching"
  /\ UNCHANGED <<input, result, store1, restored, store>>

(* one run of the async pipeline starts: a probe at mid, or the final run at lo *)
BeginRun ==
  /\ pc = "searching"
  /\ search' = [search EXCEPT
                  !.window = IF search.lo < search.hi
                             THEN probeWindow(search.lo, search.hi) ELSE search.lo,
                  !.calls = <<>>, !.inflight = 0]
  /\ pc' = "running"
  /\ UNCHANGED <<input, opts, round, callInput, result, store1, restored, store>>

(* the walk reaches a group and calls the summarizer for it *)
CallSummarizer ==
  /\ pc = "running"
  /\ Len(search.calls) < Len(summarizerCalls(callInput, search.window, opts))
  /\ mayCall(search.inflight)
  /\ search' = [search EXCEPT
                  !.calls = Append(search.calls,
                                   nextCall(summarizerCalls(callInput, search.window, opts),
                                            search.calls)),
                  !.inflight = search.inflight + 1]
  /\ UNCHANGED <<input, opts, round, callInput, result, store1, restored, store, pc>>

(* a call of the summarizer settles *)
Settle ==
  /\ pc = "running"
  /\ search.inflight > 0
  /\ search' = [search EXCEPT !.inflight = search.inflight - 1]
  /\ UNCHANGED <<input, opts, round, callInput, result, store1, restored, store, pc>>

(* the run ends: a probe moves lo or hi, the final run returns the result *)
EndRun ==
  /\ pc = "running"
  /\ Len(search.calls) = Len(summarizerCalls(callInput, search.window, opts))
  /\ search.inflight = 0
  /\ IF search.lo < search.hi
     THEN /\ result' = compressSync(callInput, search.window, opts)
          /\ search' = IF fitsBudget(result', opts.tokenBudget)
                       THEN [search EXCEPT !.lo = search.window,
                                           !.runs = search.runs + 1]
                       ELSE [search EXCEPT !.hi = search.window - 1,
                                           !.runs = search.runs + 1]
          /\ pc' = "searching"
          /\ UNCHANGED store1
     ELSE /\ result' = finish(compressSync(callInput, search.window, atFinalPass(opts)),
                              opts)
          /\ search' = [search EXCEPT !.runs = search.runs + 1]
          /\ store1' = result'.verbatim
          /\ pc' = "compressed"
  /\ UNCHANGED <<input, opts, round, callInput, restored, store>>

(* const first = compress(messages, {recencyWindow}) *)
CompressFirst ==
  /\ pc = "build"
  /\ \E w \in 1..MaxWindow, d \in BOOLEAN :
       opts' = [DefaultOptions EXCEPT !.recencyWindow = w, !.dedup = d]
  /\ result' = compress(input, opts')
  /\ store1' = result'.verbatim
  /\ callInput' = input
  /\ round' = 1
  /\ pc' = "compressed"
  /\ UNCHANGED <<input, restored, store, search>>

(* the emitted messages, with or without a new message appended, are       *)
(* compressed again under other options                                    *)
RecompressWith ==
  /\ pc = "compressed"
  /\ round = 1
  /\ \E o \in CheckedOptions,
        new \in {<<>>, <<Message(Len(input) + 1, "user", Raw("P"), FALSE)>>,
                 <<Message(Len(input) + 1, "assistant", Raw("F"), FALSE)>>} :
       /\ opts' = o
       /\ input' = input \o new
       /\ callInput' = result.messages \o new
       /\ result' = compress(callInput', o)
  /\ round' = 2
  /\ UNCHANGED <<store1, restored, store, pc, search>>

Recompress ==
  /\ pc = "compressed"
  /\ round = 1
  /\ callInput' = result.messages
  /\ result' = compress(result.messages, opts)
  /\ round' = 2
  /\ UNCHANGED <<input, opts, store1, restored, store, pc, search>>

Uncompress ==
  /\ pc = "compressed"
  /\ store' = result.verbatim
  /\ restored' = uncompress(result.messages, store', FALSE)
  /\ pc' = "restored"
  /\ UNCHANGED <<input, opts, round, callInput, result, store1, search>>

UncompressRecursive ==
  /\ pc = "compressed"
  /\ round = 2
  /\ store' = result.verbatim @@ store1
  /\ restored' = uncompress(result.messages, store', TRUE)
  /\ pc' = "deep"
  /\ UNCHANGED <<input, opts, round, callInput, result, store1, search>>

(* the store without the entries of the ids in L *)
Without(verbatim, L) == [id \in DOMAIN verbatim \ L |-> verbatim[id]]

(* the caller lost one verbatim entry, or all of them *)
UncompressLossy ==
  /\ pc = "compressed"
  /\ round = 1
  /\ \E L \in {{id} : id \in DOMAIN result.verbatim} \cup {DOMAIN result.verbatim} :
       /\ L # {}
       /\ store' = Without(result.verbatim, L)
  /\ restored' = uncompress(result.messages, store', FALSE)
  /\ pc' = "lossy"
  /\ UNCHANGED <<input, opts, round, callInput, result, store1, search>>

Rewrites(msgs) == SelectSeq(msgs, HasOriginal)

(* the caller saved the compressed messages over their own verbatim entries *)
UncompressCyclic ==
  /\ pc = "compressed"
  /\ round = 1
  /\ Rewrites(result.messages) # <<>>
  /\ store' = ToVerbatim(Rewrites(result.messages)) @@ result.verbatim
  /\ restored' = uncompress(result.messages, store', TRUE)
  /\ pc' = "cyclic"
  /\ UNCHANGED <<input, opts, round, callInput, result, store1, search>>

Next ==
  \/ AddMessage
  \/ Compress
  \/ Recompress
  \/ Uncompress
  \/ UncompressRecursive

Spec == Init /\ [][Next]_vars

(* the callers whose store is not the one compress returned *)
StoreNext ==
  \/ AddMessage
  \/ Compress
  \/ UncompressLossy
  \/ UncompressCyclic

StoreSpec == Init /\ [][StoreNext]_vars

(* the callers that pass a summarizer *)
AsyncNext ==
  \/ AddMessage
  \/ CompressAsync
  \/ Uncompress

AsyncSpec == Init /\ [][AsyncNext]_vars

(* the callers that pass malformed arguments *)
CheckedNext ==
  \/ AddEntry
  \/ CompressChecked
  \/ UncompressChecked

CheckedSpec == Init /\ [][CheckedNext]_vars

(* the callers with ids of their own *)
IdNext ==
  \/ AddMessageWithId
  \/ Compress

IdSpec == Init /\ [][IdNext]_vars

(* the budget search, probe by probe *)
SearchNext ==
  \/ AddTurn
  \/ StartSearch
  \/ Probe
  \/ FinalPass

SearchSpec == Init /\ [][SearchNext]_vars

(* the callers that ask for embedded summary ids *)
EmbedNext ==
  \/ AddMessage
  \/ CompressEmbed

EmbedSpec == Init /\ [][EmbedNext]_vars

(* the async budget search with its summarizer calls *)
AsyncRunNext ==
  \/ AddProse
  \/ StartAsyncSearch
  \/ BeginRun
  \/ CallSummarizer
  \/ Settle
  \/ EndRun

AsyncRunSpec == Init /\ [][AsyncRunNext]_vars

(* incremental compression: compress, add a message, compress again *)
RoundsNext ==
  \/ AddTurn
  \/ CompressFirst
  \/ RecompressWith
  \/ UncompressRecursive

RoundsSpec == Init /\ [][RoundsNext]_vars

(* the merge runs: prose conversations of two speakers *)
MergeNext ==
  \/ AddProse
  \/ Compress

MergeSpec == Init /\ [][MergeNext]_vars

(* ------------------------------ properties ----------------------------- *)
Ids(msgs) == [i \in 1..Len(msgs) |-> msgs[i].id]

Called == round >= 1

(* no message of the sequence carries _cce_original from an earlier round *)
Fresh(msgs) == \A i \in 1..Len(msgs) : ~HasOriginal(msgs[i])

Emitted(m) == \E j \in 1..Len(result.messages) : result.messages[j] = m

RoundTripHolds ==
  /\ restored.messages = callInput
  /\ restored.missing_ids = <<>>

(* C1 as stated: for every input sequence with unique ids and every option  *)
(* combination, uncompress(result.messages, result.verbatim) without        *)
(* recursion returns the input and reports no missing id.                   *)
C1_RoundTripEveryInput == pc = "restored" => RoundTripHolds

(* C1 amended: the round trip holds for every input sequence in which no    *)
(* message already carries _cce_original, under every option combination.   *)
C1_RoundTrip == (pc = "restored" /\ Fresh(callInput)) => RoundTripHolds

C1_Witness ==
  /\ pc = "restored"
  /\ Fresh(callInput)
  /\ result.truncated # <<>>
  /\ \E j \in 1..Len(result.messages) :
       HasOriginal(result.messages[j]) /\ Len(result.messages[j].meta[1].ids) > 1

Covers(m) == IF m.id \in DOMAIN result.verbatim THEN m.meta[1].ids ELSE <<m.id>>

Protected(i) ==
  \/ callInput[i].role \in opts.preserve
  \/ InWindow(i, Len(callInput), result.recencyWindow)
  \/ callInput[i].tool_calls

(* C3: a message with a preserved role, inside the (reported) recency       *)
(* window, or with tool_calls is emitted byte-identical to its input.       *)
C3_PreservationLaw ==
  Called => \A i \in 1..Len(callInput) : Protected(i) => Emitted(callInput[i])

InputLen(id) ==
  SumSeq([i \in 1..Len(callInput) |->
            IF callInput[i].id = id THEN callInput[i].content.len ELSE 0])

(* C4: an emitted message that carries _cce_original is no longer than the  *)
(* input messages named by its ids, taken together.                         *)
C4_SizeMonotone ==
  Called =>
    \A j \in 1..Len(result.messages) :
      HasOriginal(result.messages[j]) =>
        result.messages[j].content.len
          <= SumSeq([k \in 1..Len(result.messages[j].meta[1].ids) |->
                       InputLen(result.messages[j].meta[1].ids[k])])

VerbatimCovers ==
  \A j \in 1..Len(result.messages) :
    HasOriginal(result.messages[j]) =>
      \A id \in Range(result.messages[j].meta[1].ids) :
        /\ id \in DOMAIN result.verbatim
        /\ \E i \in 1..Len(callInput) :
             callInput[i].id = id /\ result.verbatim[id] = callInput[i]

(* C5 as stated: in every compress result, every id in an emitted           *)
(* _cce_original.ids has a verbatim entry equal to the input message.       *)
C5_VerbatimCoverageEveryInput == Called => VerbatimCovers

(* C5 amended: the coverage holds for every input sequence in which no      *)
(* message already carries _cce_original (the ids of provenance passed      *)
(* through from an earlier round are in that round's verbatim map).         *)
C5_VerbatimCoverage == (Called /\ Fresh(callInput)) => VerbatimCovers

C5_Witness ==
  /\ Called
  /\ Fresh(callInput)
  /\ \E j \in Range(result.truncated) :
       result.messages[j].content.inner[1].kind = "raw"
  /\ \E j \in Range(result.truncated) :
       result.messages[j].content.inner[1].kind # "raw"

(* C7: compress, compress the emitted messages again with the same options, *)
(* merge the two verbatim maps: uncompress with recursive = true returns the *)
(* input of round 1 and reports no missing id.                               *)
C7_MultiRoundRoundTrip ==
  pc = "deep" => (restored.messages = input /\ restored.missing_ids = <<>>)

C7_Witness ==
  /\ pc = "deep"
  /\ DOMAIN store1 # {}
  /\ Len(callInput) < Len(input)
  /\ result.messages # callInput
  /\ restored.messages_expanded > 1

BudgetCalled == Called /\ opts.tokenBudget > 0

(* C8: with tokenBudget set, result.tokenCount is the sum of tokenCounter    *)
(* over result.messages and result.fits is true exactly when tokenCount is   *)
(* at most tokenBudget (fast path, search path, after truncation).           *)
C8_BudgetResultConsistent ==
  BudgetCalled =>
    /\ result.tokenCount = sumTokens(result.messages)
    /\ result.fits = (result.tokenCount <= opts.tokenBudget)

C8_Witness ==
  /\ BudgetCalled
  /\ result.truncated # <<>>
  /\ result.fits

FittingWindows ==
  {w \in opts.minRecencyWindow..(Len(callInput) - 1) :
     compressSync(callInput, w, opts).tokenCount <= opts.tokenBudget}

(* C9: when the input exceeds tokenBudget and some window in                 *)
(* [minRecencyWindow, messages.length - 1] yields a token count of at most   *)
(* tokenBudget, the reported recencyWindow is the largest such window.       *)
C9_BudgetMaximality ==
  (BudgetCalled /\ sumTokens(callInput) > opts.tokenBudget /\ FittingWindows # {}) =>
    /\ result.recencyWindow \in FittingWindows
    /\ \A w \in FittingWindows : w <= result.recencyWindow

TailUnchanged(k) ==
  /\ Len(result.messages) >= k
  /\ \A d \in 0..(k - 1) :
       result.messages[Len(result.messages) - d] = callInput[Len(callInput) - d]

(* C10 as stated: with tokenBudget and minRecencyWindow = m set, the         *)
(* reported recencyWindow is at least m and the last m messages are emitted  *)
(* unchanged, also when m exceeds messages.length - 1.                       *)
C10_FloorEveryInput ==
  BudgetCalled =>
    /\ result.recencyWindow >= opts.minRecencyWindow
    /\ TailUnchanged(Min(opts.minRecencyWindow, Len(callInput)))

(* C10 amended: the reported recencyWindow is at least the smaller of m and  *)
(* messages.length (an input that already fits is returned untouched with    *)
(* recencyWindow = messages.length), and the last m messages, all of them    *)
(* when there are fewer, are emitted unchanged.                              *)
C10_Floor ==
  BudgetCalled =>
    /\ result.recencyWindow >= Min(opts.minRecencyWindow, Len(callInput))
    /\ TailUnchanged(Min(opts.minRecencyWindow, Len(callInput)))

C10_Witness ==
  /\ BudgetCalled
  /\ opts.minRecencyWindow = 1
  /\ Len(callInput) > 1
  /\ result.truncated # <<>>
  /\ callInput[Len(callInput)].content.len > TruncateLen
  /\ callInput[Len(callInput)].role \notin opts.preserve

AlreadyFits == BudgetCalled /\ sumTokens(callInput) <= opts.tokenBudget

(* C11: with tokenBudget set and the input's token sum at most tokenBudget,  *)
(* compress returns the input untouched, an empty verbatim map, fits = true  *)
(* and recencyWindow = messages.length, whatever dedup, minRecencyWindow     *)
(* and forceConverge are.                                                    *)
C11_BudgetFastPath ==
  AlreadyFits =>
    /\ result.messages = callInput
    /\ DOMAIN result.verbatim = {}
    /\ result.fits
    /\ result.truncated = <<>>
    /\ result.tokenCount = sumTokens(callInput)
    /\ result.recencyWindow = Len(callInput)

(* an input that fits although the pipeline would rewrite part of it *)
C11_Witness ==
  /\ AlreadyFits
  /\ round = 1
  /\ opts.dedup
  /\ opts.forceConverge
  /\ opts.minRecencyWindow = 1
  /\ Len(callInput) >= 2
  /\ compressSync(callInput, 1, opts).messages # callInput

OnlyProtectedRemain ==
  \A j \in 1..Len(result.messages) :
    \/ result.messages[j].role \in opts.preserve
    \/ InWindow(j, Len(result.messages), result.recencyWindow)

(* C12: with tokenBudget and forceConverge, result.fits is true unless only  *)
(* preserved-role messages and recency-window messages remain.               *)
C12_ForceConvergeFits ==
  (BudgetCalled /\ opts.forceConverge) => (result.fits \/ OnlyProtectedRemain)

WithoutForceConverge == compress(callInput, [opts EXCEPT !.forceConverge = FALSE])

(* C13: with tokenBudget set, tokenCount with forceConverge on is at most    *)
(* tokenCount with forceConverge off (other options equal), and no           *)
(* truncation step raises the token total: each truncated message counts no  *)
(* more tokens than the message it replaced.                                 *)
C13_ForceConvergeNeverAdds ==
  (BudgetCalled /\ opts.forceConverge) =>
    /\ result.tokenCount <= WithoutForceConverge.tokenCount
    /\ \A i \in Range(result.truncated) :
         defaultTokenCounter(result.messages[i])
           <= defaultTokenCounter(WithoutForceConverge.messages[i])

Damaged(m) == HasOriginal(m) /\ \E id \in Range(m.meta[1].ids) : id \notin DOMAIN store

AbsentIds(m) == SelectSeq(m.meta[1].ids, LAMBDA id : id \notin DOMAIN store)

InputOf(ids) == [k \in 1..Len(ids) |-> callInput[CHOOSE i \in 1..Len(callInput) :
                                                    callInput[i].id = ids[k]]]

(* what a pass over the emitted messages must return with the store at hand *)
ExpectedOutput(m) == IF Damaged(m) THEN <<m>> ELSE InputOf(Covers(m))

ExpectedMissing(m) == IF Damaged(m) THEN AbsentIds(m) ELSE <<>>

(* C14: in uncompress, a message with at least one id absent from the store  *)
(* is emitted once in its compressed form (no partial expansion), every      *)
(* absent id is recorded in missing_ids, and every other message is          *)
(* expanded to its originals or passed through.                              *)
C14_GracefulDegradation ==
  pc = "lossy" =>
    /\ restored.messages =
         Flatten([j \in 1..Len(result.messages) |-> ExpectedOutput(result.messages[j])])
    /\ restored.missing_ids =
         Flatten([j \in 1..Len(result.messages) |-> ExpectedMissing(result.messages[j])])

(* a merged message lost one of its ids while another message is expanded *)
C14_Witness ==
  /\ pc = "lossy"
  /\ \E j \in 1..Len(result.messages) :
       /\ Damaged(result.messages[j])
       /\ Len(AbsentIds(result.messages[j])) < Len(result.messages[j].meta[1].ids)
  /\ restored.messages_expanded > 0
  /\ restored.missing_ids # <<>>

Failing(s) == s.kind \in {"throws", "rejects", "nonstring", "empty", "echo"}

SyncResult == compress(callInput, [opts EXCEPT !.summarizer = NoSummarizer])

SourceParas(c) == [i \in 1..Len(c.src) |-> Catalogue[c.src[i]].sents]

(* the summary text of an emitted summary or code-split content, without   *)
(* its prefix, suffixes and fences                                         *)
SummaryTextLen(c) ==
  IF c.kind = "summary"
  THEN c.len - summaryPrefixLen(opts.embedSummaryId, c.ref)
             - mergeSuffixLen(Len(c.src)) - entitySuffixLen(c.src) - 1
  ELSE c.len - summaryPrefixLen(opts.embedSummaryId, c.ref) - 1 - 2
             - Catalogue[c.src[1]].fence

TakenFromSummarizer(c) ==
  /\ returnsString(opts.summarizer)
  /\ SummaryTextLen(c) = replyLen(finalPass(opts.summarizer), ParasLen(SourceParas(c)))
  /\ SummaryTextLen(c) > 0
  /\ SummaryTextLen(c) < ParasLen(SourceParas(c))

(* C16: on the async path every emitted summary text is either the reply   *)
(* of the summarizer, which then is a non-empty string strictly shorter    *)
(* than the text passed in, or the deterministic summary; and with a       *)
(* summarizer that throws, rejects or returns an empty, non-string or      *)
(* equally long value the async result equals the synchronous result.      *)
C16_SummarizerFallback ==
  (pc = "compressed" /\ opts.summarizer.kind # "none") =>
    /\ Failing(opts.summarizer) => result = SyncResult
    /\ \A j \in 1..Len(result.messages) :
         result.messages[j].content.kind \in {"summary", "split"} =>
           \/ TakenFromSummarizer(result.messages[j].content)
           \/ SummaryTextLen(result.messages[j].content)
                = summarize(SourceParas(result.messages[j].content))

(* a summarizer that echoes its input, and a merged group rewritten by the *)
(* deterministic fallback                                                  *)
C16_Witness ==
  /\ pc = "compressed"
  /\ opts.summarizer.kind = "echo"
  /\ \E j \in 1..Len(result.messages) :
       /\ result.messages[j].content.kind = "summary"
       /\ Len(result.messages[j].content.src) > 1

Empty(e) == hasId(e) /\ e.content.len = 0

ExpectedSummaryId(p) ==
  /\ p.summary_id = makeSummaryId(SortAsc(Range(p.ids)))
  /\ p.ids = <<1>> => p.summary_id = <<2, 46550>> /\ SummaryIdLen(p.summary_id) = 12
  /\ Range(p.ids) = {1, 3} =>
       p.summary_id = <<2951, 33673>> /\ SummaryIdLen(p.summary_id) = 14
  /\ Range(p.ids) = {2, 3, 4} =>
       p.summary_id = <<2952, 41598>> /\ SummaryIdLen(p.summary_id) = 14

(* C18: the summary_id of every rewrite is the djb2 hash (start 5381,      *)
(* h*33 + char code mod 2^32) of its single id or of its ids sorted and    *)
(* joined by NUL, so it depends on the set of ids only, not on their       *)
(* order in the conversation nor on the content.                           *)
C18_SummaryIdPurity ==
  pc = "compressed" =>
    \A j \in 1..Len(result.messages) :
      HasOriginal(result.messages[j]) => ExpectedSummaryId(result.messages[j].meta[1])

(* a merged rewrite whose ids are 4, 2, 3 in this order *)
C18_Witness ==
  /\ pc = "compressed"
  /\ \E j \in 1..Len(result.messages) :
       /\ HasOriginal(result.messages[j])
       /\ result.messages[j].meta[1].ids = <<4, 2, 3>>

(* where the last fenced block of a content ends: the fences follow the    *)
(* prose, in a raw text and in a code-split rewrite alike                  *)
FenceEnd(c) == c.len

(* the content still holds every fenced block of the text, whole *)
FencesKept(c, name) ==
  \/ c = Raw(name)
  \/ c.kind = "split" /\ c.src = <<name>>
  \/ /\ c.kind = "trunc"
     /\ c.inner[1].kind \in {"raw", "split"}
     /\ c.inner[1].src = <<name>>
     /\ FenceEnd(c.inner[1]) <= TruncateLen

(* C19: every fenced code block of an input message is still, whole, in    *)
(* the emitted content of that message, whichever path the message took:   *)
(* preserved, code-split, dedup, force-converge truncation.                *)
C19_CodeVerbatim ==
  (Called /\ Fresh(callInput)) =>
    \A i \in 1..Len(callInput) :
      FenceLen(callInput[i].content) > 0 =>
        \E j \in 1..Len(result.messages) :
          /\ callInput[i].id \in Range(Covers(result.messages[j]))
          /\ FencesKept(result.messages[j].content, callInput[i].content.src[1])

(* the text of the content holds the summary id sid: a summary or a        *)
(* code-split output names it right after "[summary#", a truncation holds  *)
(* the first TruncateLen characters of what it cut, a dedup reference      *)
(* holds the keep target's id and two numbers only                         *)
HoldsSummaryId(c, sid) ==
  \/ c.kind \in {"summary", "split"} /\ c.ref = sid
  \/ /\ c.kind = "trunc"
     /\ c.inner[1].kind \in {"summary", "split"}
     /\ c.inner[1].ref = sid

(* C20: with embedSummaryId: true, the content of every emitted message    *)
(* that carries _cce_original holds that message's summary_id, whether it  *)
(* is a summary, a code-split output, a dedup reference or a truncation.   *)
C20_SummaryIdEmbedded ==
  (Called /\ opts.embedSummaryId) =>
    \A j \in 1..Len(result.messages) :
      HasOriginal(result.messages[j]) =>
        HoldsSummaryId(result.messages[j].content, result.messages[j].meta[1].summary_id)

(* the eligible messages of the call whose content equals that of i *)
ExactGroup(i) ==
  {j \in 1..Len(callInput) :
     /\ dedupEligible(callInput[j], opts.preserve)
     /\ callInput[j].content = callInput[i].content}

OutsideWindow(G) ==
  \A j \in G : ~InWindow(j, Len(callInput), result.recencyWindow)

(* message j of the call is emitted as an exact-dedup reference *)
EmittedAsDup(j) ==
  \E k \in 1..Len(result.messages) :
    /\ result.messages[k].id = callInput[j].id
    /\ result.messages[k].content.kind = "dup"
    /\ HasOriginal(result.messages[k])
    /\ result.messages[k].meta[1].ids = <<callInput[j].id>>

(* compression.messages_deduped: the exact duplicates replaced in the call *)
messages_deduped ==
  Cardinality({k \in 1..Len(result.messages) :
                 /\ result.messages[k].content.kind = "dup"
                 /\ result.messages[k].id \in DOMAIN result.verbatim})

(* C21: of a group of two or more eligible messages with equal content,    *)
(* all outside the recency window, exactly one is emitted untouched (the   *)
(* keep target, neither summarized nor merged), every other member is      *)
(* emitted as a dedup reference, and messages_deduped counts the replaced  *)
(* members.                                                                *)
C21_ExactDedupOutcome ==
  (Called /\ Fresh(callInput) /\ opts.dedup) =>
    /\ \A i \in 1..Len(callInput) :
         (i \in ExactGroup(i) /\ Cardinality(ExactGroup(i)) >= 2
            /\ OutsideWindow(ExactGroup(i))) =>
           /\ Cardinality({j \in ExactGroup(i) : Emitted(callInput[j])}) = 1
           /\ \A j \in ExactGroup(i) : Emitted(callInput[j]) \/ EmittedAsDup(j)
    /\ messages_deduped =
         Cardinality({j \in 1..Len(callInput) : EmittedAsDup(j)})

(* C22: when the reported recencyWindow is greater than minRecencyWindow,  *)
(* i.e. the search accepted a probe at that window, the final result has   *)
(* fits = true, on the synchronous path and with an external summarizer.   *)
C22_AcceptedProbeFits ==
  (BudgetCalled /\ result.recencyWindow > opts.minRecencyWindow) => result.fits

RECURSIVE CeilLog2(_)
CeilLog2(n) == IF n <= 1 THEN 0 ELSE 1 + CeilLog2((n + 1) \div 2)

(* C23: the budget search ends: every probe strictly shrinks the interval  *)
(* [lo, hi]; the pipeline is run at most ceil(log2(N)) times for probes    *)
(* plus once for the final pass, N = messages.length; and what the search  *)
(* returns step by step is what compress returns.                          *)
C23_SearchTerminates ==
  /\ pc = "searching" =>
       /\ search.runs <= CeilLog2(Len(callInput))
       /\ search.runs + CeilLog2(Max(1, search.hi - search.lo + 1))
            <= CeilLog2(Len(callInput))
  /\ (pc = "compressed" /\ search # NoSearch) =>
       /\ search.runs <= CeilLog2(Len(callInput)) + 1
       /\ result = compress(callInput, opts)

(* a search over five messages that took three probes and the final pass *)
C23_Witness ==
  /\ pc = "compressed"
  /\ Len(callInput) = 5
  /\ search.runs = 4

(* the classifier's decisions of the call at the window the result reports *)
callDecisions ==
  decisions(callInput, result.recencyWindow, opts,
            dedupAnnotations(callInput, result.recencyWindow, opts))

(* i..j is a maximal run of consecutive same-role compressible messages *)
MergeRun(i, j) ==
  /\ i < j
  /\ \A k \in i..j : /\ callDecisions[k] = "compress"
                     /\ callInput[k].role = callInput[i].role
  /\ i = 1 \/ callDecisions[i - 1] # "compress"
           \/ callInput[i - 1].role # callInput[i].role
  /\ j = Len(callInput) \/ callDecisions[j + 1] # "compress"
                        \/ callInput[j + 1].role # callInput[i].role

RunIds(i, j) == [k \in 1..(j - i + 1) |-> callInput[i + k - 1].id]
RunLen(i, j) == SumSeq([k \in 1..(j - i + 1) |-> callInput[i + k - 1].content.len])

(* the run is emitted as one rewrite that names all its members in order *)
MergedAsOne(i, j) ==
  /\ \E n \in 1..Len(result.messages) :
       /\ HasOriginal(result.messages[n])
       /\ result.messages[n].meta[1].ids = RunIds(i, j)
       /\ result.messages[n].content.len < RunLen(i, j)
  /\ \A k \in i..j : ~Emitted(callInput[k])
  /\ Cardinality({n \in 1..Len(result.messages) :
                    /\ HasOriginal(result.messages[n])
                    /\ \E k \in i..j :
                         callInput[k].id \in Range(result.messages[n].meta[1].ids)}) = 1

(* every member of the run is emitted as it came, none is named by a rewrite *)
PassedThrough(i, j) ==
  /\ \A k \in i..j : Emitted(callInput[k])
  /\ \A n \in 1..Len(result.messages) :
       HasOriginal(result.messages[n]) =>
         \A k \in i..j : callInput[k].id \notin Range(result.messages[n].meta[1].ids)

(* C24: a group of two or more consecutive same-role compressible messages *)
(* is either emitted as one rewrite, strictly shorter than its members     *)
(* combined, whose _cce_original.ids lists all members in input order, or  *)
(* all its members are emitted unchanged without _cce_original; never only *)
(* some of them rewritten.                                                 *)
C24_MergeAllOrNothing ==
  (Called /\ Fresh(callInput)) =>
    \A i, j \in 1..Len(callInput) :
      MergeRun(i, j) => (MergedAsOne(i, j) \/ PassedThrough(i, j))

(* an abandoned merge: both members of a run pass through *)
C24_Witness ==
  /\ Called
  /\ Fresh(callInput)
  /\ \E i, j \in 1..Len(callInput) : MergeRun(i, j) /\ PassedThrough(i, j)

IndexOfId(id) == CHOOSE j \in 1..Len(callInput) : callInput[j].id = id

(* the earliest member of G inside the recency window, else the latest *)
ExpectedTarget(G) ==
  IF \E j \in G : InWindow(j, Len(callInput), result.recencyWindow)
  THEN CHOOSE j \in G : /\ InWindow(j, Len(callInput), result.recencyWindow)
                        /\ \A k \in G :
                             InWindow(k, Len(callInput), result.recencyWindow) => j <= k
  ELSE CHOOSE j \in G : \A k \in G : k <= j

callExact ==
  IF opts.dedup THEN exactAnnotations(callInput, result.recencyWindow, opts.preserve)
  ELSE AsSeq([i \in 1..Len(callInput) |-> NoAnn])

callFuzzyEligible == fuzzyEligible(callInput, opts.preserve, callExact)

(* the near-duplicates transitively connected to message j *)
FuzzyGroup(j) ==
  Component({j}, callFuzzyEligible, fuzzyPairs(callInput, callFuzzyEligible))

(* the reference m replaces message j and names target t and j's length *)
RefersTo(m, j, t) ==
  /\ m.content.ref = <<0, callInput[t].id>>
  /\ m.content.num = callInput[j].content.len
  /\ m.content.len = IF m.content.kind = "dup"
                     THEN DupContent(callInput[t].id, callInput[j].content.len).len
                     ELSE NearDupContent(callInput[t].id, callInput[j].content.len,
                                         m.content.pct).len

(* C25: every dedup reference names the keep target of its group, the     *)
(* earliest member inside the recency window if there is one and otherwise *)
(* the latest member, and the original length of the message it replaces;  *)
(* near-duplicate references follow the same rule over their groups.       *)
C25_KeepTarget ==
  (Called /\ Fresh(callInput)) =>
    \A n \in 1..Len(result.messages) :
      /\ result.messages[n].content.kind = "dup" =>
           RefersTo(result.messages[n], IndexOfId(result.messages[n].id),
                    ExpectedTarget(ExactGroup(IndexOfId(result.messages[n].id))))
      /\ result.messages[n].content.kind = "neardup" =>
           RefersTo(result.messages[n], IndexOfId(result.messages[n].id),
                    ExpectedTarget(FuzzyGroup(IndexOfId(result.messages[n].id))))

(* a group with a member inside the window and one with none, all replaced *)
C25_Witness ==
  /\ Called
  /\ Fresh(callInput)
  /\ Len(callInput) = 3
  /\ result.recencyWindow = 1
  /\ result.messages[1].content.kind = "dup"
  /\ result.messages[2].content.kind = "dup"
  /\ result.messages[1].content.ref = <<0, callInput[3].id>>

(* the content length of emitted message i before the truncation pass *)
PreLen(i) ==
  IF i \in Range(result.truncated) THEN result.messages[i].content.inner[1].len
  ELSE result.messages[i].content.len

(* the messages the truncation pass may cut *)
TruncEligible ==
  {i \in 1..Max(0, Len(result.messages) - result.recencyWindow) :
     /\ result.messages[i].role \notin opts.preserve
     /\ PreLen(i) > TruncateLen}

(* the token total once the first p truncations are made *)
TotalAfter(p) ==
  SumSeq([i \in 1..Len(result.messages) |->
            IF \E k \in 1..p : result.truncated[k] = i
            THEN defaultTokenCounter(result.messages[i])
            ELSE (2 * PreLen(i) + 6) \div 7])

(* the truncated messages are a prefix of the eligible ones in descending  *)
(* length, each truncation was made while over budget, the total is        *)
(* recomputed, and the pass goes on while the total exceeds the budget     *)
TruncationOrder ==
  /\ Range(result.truncated) \subseteq TruncEligible
  /\ Cardinality(Range(result.truncated)) = Len(result.truncated)
  /\ \A k \in 1..(Len(result.truncated) - 1) :
       PreLen(result.truncated[k]) >= PreLen(result.truncated[k + 1])
  /\ \A i \in TruncEligible \ Range(result.truncated) :
       \A k \in 1..Len(result.truncated) : PreLen(result.truncated[k]) >= PreLen(i)
  /\ \A p \in 0..(Len(result.truncated) - 1) : TotalAfter(p) > opts.tokenBudget
  /\ result.tokenCount = TotalAfter(Len(result.truncated))
  /\ (opts.forceConverge /\ result.tokenCount > opts.tokenBudget) =>
       Range(result.truncated) = TruncEligible
  /\ result.truncated # <<>> => opts.forceConverge

SearchDone == pc = "compressed" /\ opts.tokenBudget > 0 /\ Fresh(callInput)

(* C26: force-converge runs only when the final pass at recencyWindow =    *)
(* minRecencyWindow is over budget; it truncates the eligible messages one *)
(* at a time in descending content length, recomputes the total after each *)
(* truncation and stops at the first point where the total is within the   *)
(* budget, so the truncated messages are a prefix of that order.           *)
C26_ForceConvergeOrder ==
  SearchDone =>
    /\ TruncationOrder
    /\ result.truncated # <<>> => result.recencyWindow = opts.minRecencyWindow

(* the part of C26 about the pass itself: it runs only when the final pass *)
(* is over budget; the order, the recomputed total and the stopping point  *)
(* are as stated, at whatever recency window the search accepted.          *)
C26_ForceConvergeOrderAtAnyWindow ==
  SearchDone => TruncationOrder

(* two messages are eligible and the pass stops after the longer one *)
C26_Witness ==
  /\ SearchDone
  /\ Len(result.truncated) = 1
  /\ Cardinality(TruncEligible) >= 2
  /\ result.fits

(* the calls the current run has to make *)
DueCalls == summarizerCalls(callInput, search.window, opts)

(* C27: within one asynchronous compress call the summarizer is invoked    *)
(* for the groups in left-to-right message order and never while another   *)
(* call is in flight; the runs of a budget search follow one another, none *)
(* starting while a call of the previous run is pending.                   *)
C27_SequentialCalls ==
  /\ search.inflight <= 1
  /\ pc = "running" =>
       /\ Len(search.calls) <= Len(DueCalls)
       /\ search.calls = SubSeq(DueCalls, 1, Len(search.calls))
       /\ \A k \in 1..(Len(search.calls) - 1) : search.calls[k] < search.calls[k + 1]
  /\ pc \in {"searching", "compressed"} => search.inflight = 0
  /\ (pc = "compressed" /\ search # NoSearch) => result = compress(callInput, opts)

(* the second call of a probe is in flight after the first one settled *)
C27_Witness ==
  /\ pc = "running"
  /\ search.lo < search.hi
  /\ Len(search.calls) = 2
  /\ search.inflight = 1

(* the content emitted message n had when the pipeline emitted it *)
PipelineContent(n) ==
  IF result.messages[n].content.kind = "trunc"
  THEN result.messages[n].content.inner[1]
  ELSE result.messages[n].content

(* compression.messages_preserved: the messages kept as they came *)
messages_preserved ==
  Cardinality({i \in 1..Len(callInput) :
                 \E n \in 1..Len(result.messages) :
                   /\ result.messages[n].id = callInput[i].id
                   /\ PipelineContent(n) = callInput[i].content})

(* compression.messages_compressed: the messages replaced by a summary or  *)
(* a code-split rewrite, every member of a merged group counted            *)
messages_compressed ==
  Cardinality({i \in 1..Len(callInput) :
                 \E n \in 1..Len(result.messages) :
                   /\ HasOriginal(result.messages[n])
                   /\ PipelineContent(n).kind \in {"summary", "split"}
                   /\ callInput[i].id \in Range(result.messages[n].meta[1].ids)})

(* C28: in every compress result messages_compressed + messages_preserved  *)
(* is the number of input messages, each counted once, also when messages  *)
(* are merged, replaced by dedup references or truncated.                  *)
C28_StatsPartition ==
  (Called /\ Fresh(callInput)) =>
    messages_compressed + messages_preserved = Len(callInput)

(* the sum with the messages the two dedup passes replaced *)
C28_StatsPartitionWithDedup ==
  (Called /\ Fresh(callInput)) =>
    messages_compressed + messages_preserved
      + Cardinality({n \in 1..Len(result.messages) :
                       result.messages[n].content.kind \in {"dup", "neardup"}})
      = Len(callInput)

(* the ids both rounds stored *)
StoredTwice == DOMAIN store1 \cap DOMAIN result.verbatim

(* C29: the verbatim maps of two successive rounds never bind one id to    *)
(* two different messages, so merging them in either order gives the same  *)
(* store, and recursive uncompress with it restores the round-1 originals. *)
C29_StoresNeverConflict ==
  round = 2 =>
    /\ \A id \in StoredTwice : store1[id] = result.verbatim[id]
    /\ (store1 @@ result.verbatim) = (result.verbatim @@ store1)
    /\ pc = "deep" =>
         /\ restored.messages = input
         /\ uncompress(result.messages, store1 @@ result.verbatim, TRUE) = restored

(* both rounds stored originals and round 2 rewrote an output of round 1 *)
C29_Witness ==
  /\ pc = "deep"
  /\ DOMAIN store1 # {}
  /\ DOMAIN result.verbatim # {}
  /\ \E n \in 1..Len(result.messages) :
       /\ result.messages[n].id \in DOMAIN store1
       /\ result.messages[n].content.kind = "trunc"
  /\ restored.messages_expanded > 1

IsReference(m) == m.content.kind \in {"dup", "neardup"}

(* C30: with dedup and fuzzyDedup both on, every emitted dedup or near-dup *)
(* reference names a keep target that is present in the emitted sequence,  *)
(* is another message than the referencing one, and is not itself replaced *)
(* by a reference: references form no chains and no cycles.                *)
C30_NoDedupChains ==
  (Called /\ Fresh(callInput) /\ opts.dedup /\ opts.fuzzyDedup) =>
    \A n \in 1..Len(result.messages) :
      IsReference(result.messages[n]) =>
        /\ result.messages[n].content.ref[2] # result.messages[n].id
        /\ \E t \in 1..Len(result.messages) :
             /\ result.messages[t].id = result.messages[n].content.ref[2]
             /\ ~IsReference(result.messages[t])

(* the part of C30 that bars a reference to the referencing message itself *)
C30_NoSelfReference ==
  (Called /\ Fresh(callInput)) =>
    \A n \in 1..Len(result.messages) :
      IsReference(result.messages[n]) =>
        result.messages[n].content.ref[2] # result.messages[n].id

(* the part of C30 that asks for the target to be present when emitted *)
C30_TargetPresent ==
  (Called /\ Fresh(callInput) /\ opts.dedup /\ opts.fuzzyDedup) =>
    \A n \in 1..Len(result.messages) :
      IsReference(result.messages[n]) =>
        \E t \in 1..Len(result.messages) :
          result.messages[t].id = result.messages[n].content.ref[2]

====
